---- MODULE Spec2Model ----
(***************************************************************************)
(* Model of plainbox.impl.dbus.service: the DBus property descriptor       *)
(* (class property), the per-class property-interface map of class Object  *)
(* the org.freedesktop.DBus.Properties handlers Get, Set and GetAll, and   *)
(* the org.freedesktop.DBus.Introspectable handler Introspect.             *)
(***************************************************************************)
EXTENDS Integers, Sequences, FiniteSets, TLC

VARIABLES
    clsMap,     \* class -> the _property_iface_map entry of that class's __dict__
    nextId,     \* identity given to the next dict allocated by a build
    buildCount, \* class -> number of runs of _build_property_iface_map(cls)
    insts,      \* the live Object instances: <<[cls, store]>>
    emitted,    \* number of PropertiesChanged signals emitted so far
    notified,   \* number of explicit calls of the PropertiesChanged operation
    last,       \* the last handler call: its inputs and what the caller observed
    children,   \* the child objects exported on the connection: <<path, name>>
    decl,       \* the descriptor a class body is declaring, and how it got there
    tpc,        \* thread -> position inside _get_property_iface_map
    tcls,       \* thread -> the class (cls) of the call the thread is in
    tloc,       \* thread -> the local variable property_iface_map
    tgot,       \* thread -> the map the classmethod returned to the thread
    published   \* class -> identities of all maps ever assigned to the class

vars == <<clsMap, nextId, buildCount, insts, emitted, notified, last, children,
          decl, tpc, tcls, tloc, tgot, published>>

serialVars == <<insts, emitted, notified, last, children>>
threadVars == <<tpc, tcls, tloc, tgot, published>>

-----------------------------------------------------------------------------
(* Bounds of the model *)

MaxInstances == 1
MaxSignals == 1
MaxChildren == 1
NumThreads == 2

-----------------------------------------------------------------------------
(* Python values *)

None == "None"

PROPERTIES_IFACE == "org.freedesktop.DBus.Properties"
INTROSPECTABLE_IFACE == "org.freedesktop.DBus.Introspectable"

\* A user function: its __name__, what its body does, the instance slot it uses.
Fn(name, kind, slot) == [name |-> name, kind |-> kind, slot |-> slot]
NoFunc == Fn(None, None, None)

\* An exception object: its class, its _dbus_error_name and its args.
\* Every string argument is kept as the sequence of the pieces it is built of.
Exc(type, dbus_name, args) == [type |-> type, dbus_name |-> dbus_name, args |-> args]
NoExc == Exc(None, None, <<>>)

\* dbus.exceptions.DBusException(*args): no name= keyword is ever passed by
\* this module, so _dbus_error_name stays None.
DBusException(args) == Exc("DBusException", None, args)

\* A slip: the message is formatted with {} (str) instead of {!r} (repr).
Repr_str(exc) == exc.args[1]

\* repr(exc) of an exception: the class name and the quoted arguments.
Repr(exc) == <<exc.type, "(">> \o exc.args[1] \o <<")">>

-----------------------------------------------------------------------------
(* class property *)

property_init(signature, dbus_interface, dbus_property, setter) ==
    [py_type |-> "property",
     name |-> None, doc |-> None,
     signature |-> signature,
     dbus_interface |-> dbus_interface,
     dbus_property |-> dbus_property,
     getf |-> NoFunc,
     setf |-> NoFunc,
     implicit_setter |-> setter]

property_setter(self, func) == [self EXCEPT !.setf = func]

property_getter(self, func) == [self EXCEPT !.getf = func]

\* A __call__ that always takes the name of the decorated function.
property_call_renaming(self, func) ==
    IF self.implicit_setter
    THEN property_setter([self EXCEPT !.name = func.name,
                                      !.dbus_property = func.name], func)
    ELSE property_getter([self EXCEPT !.name = func.name,
                                      !.dbus_property = func.name], func)

\* A __call__ that always binds the getter.
property_call_getter(self, func) ==
    property_getter([self EXCEPT !.name = func.name,
                                 !.dbus_property =
                                     IF @ = None THEN func.name ELSE @], func)

property_call(self, func) ==
    LET s1 == [self EXCEPT !.name = func.name,
                           !.dbus_property =
                               IF @ = None THEN func.name ELSE @]
    IN  IF s1.implicit_setter
        THEN property_setter(s1, func)
        ELSE property_getter(s1, func)

\* bool(f) of an accessor slot: None is false, a function is true.
Truthy(f) == f # NoFunc

\* What the access flag evaluates to: a value or an exception.
Flag(ok, value, exc) == [ok |-> ok, value |-> value, exc |-> exc]

\* An access flag that names the unbound role.
dbus_access_flag_swapped(self) ==
    IF Truthy(self.getf) /\ Truthy(self.setf) THEN Flag(TRUE, "readwrite", NoExc)
    ELSE IF Truthy(self.getf) THEN Flag(TRUE, "write", NoExc)
    ELSE IF Truthy(self.setf) THEN Flag(TRUE, "read", NoExc)
    ELSE Flag(FALSE, None,
              Exc("TypeError", None,
                  << <<"property provides neither readable nor writable">> >>))

\* property.dbus_access_flag
dbus_access_flag(self) ==
    IF Truthy(self.getf) /\ Truthy(self.setf) THEN Flag(TRUE, "readwrite", NoExc)
    ELSE IF Truthy(self.getf) THEN Flag(TRUE, "read", NoExc)
    ELSE IF Truthy(self.setf) THEN Flag(TRUE, "write", NoExc)
    ELSE Flag(FALSE, None,
              Exc("TypeError", None,
                  << <<"property provides neither readable nor writable">> >>))

-----------------------------------------------------------------------------
(* The classes under verification: the attributes of each class's __dict__ *)

IWidget == "com.example.Widget"
IAdmin == "com.example.Admin"
IGadget == "com.example.Gadget"
IOther == "com.example.Other"
ITwin == "com.example.Twin"
IGhost == "com.example.Ghost"

Classes == {"Object", "Widget", "Gadget", "Plain", "Twin", "Ghost"}

\* The base class of each class (single inheritance below Object).
Parent(c) ==
    CASE c = "Widget" -> "Object"
      [] c = "Gadget" -> "Widget"
      [] c = "Plain" -> "Object"
      [] c = "Twin" -> "Object"
      [] c = "Ghost" -> "Object"
      [] OTHER -> None

\* A function decorated with dbus.service.method or dbus.service.signal, such
\* as Get, Set or GetAll: an attribute that is no property. kind is "method"
\* or "signal".
Method(name, dbus_interface, kind) ==
    [py_type |-> "function", name |-> name, dbus_interface |-> dbus_interface,
     kind |-> kind]
NoneObject == [py_type |-> "NoneType"]

\* class Widget(Object):
\*     @property("s", IWidget)
\*     def color(self): return self._color
\*     @color.setter
\*     def color(self, value): self._color = value
\*     @property("s", IWidget)
\*     def size(self): return "big"
\*     @property("s", IAdmin)
\*     def audit(self): return "clean"
\*     @property("s", IAdmin)
\*     def broken(self): raise RuntimeError("boom")
\*     @broken.setter
\*     def broken(self, value): raise RuntimeError("boom")
\*     @property("s", IAdmin, setter=True)
\*     def paint(self, value): self._color = value
\*     @property("s", IAdmin)
\*     def locked(self): raise dbus.exceptions.DBusException("denied")
\*     @locked.setter
\*     def locked(self, value): raise dbus.exceptions.DBusException("denied")
WidgetDict ==
    [n \in {"audit", "broken", "color", "locked", "paint", "size"} |->
        CASE n = "color" ->
                property_setter(
                    property_call(property_init("s", IWidget, None, FALSE),
                                  Fn("color", "get_store", "_color")),
                    Fn("color", "set_store", "_color"))
          [] n = "size" ->
                property_call(property_init("s", IWidget, None, FALSE),
                              Fn("size", "get_const", "big"))
          [] n = "audit" ->
                property_call(property_init("s", IAdmin, None, FALSE),
                              Fn("audit", "get_const", "clean"))
          [] n = "broken" ->
                property_setter(
                    property_call(property_init("s", IAdmin, None, FALSE),
                                  Fn("broken", "raise_runtime", "boom")),
                    Fn("broken", "raise_runtime", "boom"))
          [] n = "locked" ->
                property_setter(
                    property_call(property_init("s", IAdmin, None, FALSE),
                                  Fn("locked", "raise_dbus", "denied")),
                    Fn("locked", "raise_dbus", "denied"))
          [] n = "paint" ->
                property_call(property_init("s", IAdmin, None, TRUE),
                              Fn("paint", "set_store", "_color"))]

\* class Gadget(Widget):
\*     @property("s", IGadget)
\*     def weight(self): return self._weight
\*     @weight.setter
\*     def weight(self, value):
\*         self._weight = value
\*         self.PropertiesChanged(IGadget, {"weight": value}, [])
GadgetDict ==
    [n \in {"weight"} |->
        property_setter(
            property_call(property_init("s", IGadget, None, FALSE),
                          Fn("weight", "get_store", "_weight")),
            Fn("weight", "set_store_notify", "_weight"))]

\* class Twin(Object):
\*     @property("s", ITwin, "shade")
\*     def beta(self): return "b"
\*     @property("s", ITwin, "shade")
\*     def alpha(self): return "a"
TwinDict ==
    [n \in {"alpha", "beta"} |->
        IF n = "alpha"
        THEN property_call(property_init("s", ITwin, "shade", FALSE),
                           Fn("alpha", "get_const", "a"))
        ELSE property_call(property_init("s", ITwin, "shade", FALSE),
                           Fn("beta", "get_const", "b"))]

\* class Ghost(Object):
\*     ghost = property("s", IGhost, "ghost")
GhostDict == [n \in {"ghost"} |-> property_init("s", IGhost, "ghost", FALSE)]

\* class Object: its handlers are methods and a signal; class Plain(Object): pass
ObjectDict ==
    [n \in {"Get", "GetAll", "Introspect", "PropertiesChanged", "Set"} |->
        CASE n = "Introspect" -> Method(n, INTROSPECTABLE_IFACE, "method")
          [] n = "PropertiesChanged" -> Method(n, PROPERTIES_IFACE, "signal")
          [] OTHER -> Method(n, PROPERTIES_IFACE, "method")]
PlainDict == [n \in {} |-> NoneObject]

ClassDict(c) ==
    CASE c = "Object" -> ObjectDict
      [] c = "Widget" -> WidgetDict
      [] c = "Gadget" -> GadgetDict
      [] c = "Plain" -> PlainDict
      [] c = "Twin" -> TwinDict
      [] c = "Ghost" -> GhostDict

\* The attribute names of a class's __dict__ in the order of the class body.
DeclOrder(c) ==
    CASE c = "Object" -> <<"Introspect", "Get", "Set", "GetAll", "PropertiesChanged">>
      [] c = "Widget" -> <<"color", "size", "audit", "broken", "paint", "locked">>
      [] c = "Gadget" -> <<"weight">>
      [] c = "Twin" -> <<"beta", "alpha">>
      [] c = "Ghost" -> <<"ghost">>
      [] OTHER -> <<>>

\* The method resolution order of a class: the class, then its bases.
RECURSIVE Mro(_)
Mro(c) == IF c = None THEN <<>> ELSE <<c>> \o Mro(Parent(c))

InMro(c, k) == \E j \in 1..Len(Mro(c)) : Mro(c)[j] = k

\* Every attribute name of the model in sorted() order (upper case first).
AttrOrder == <<"Get", "GetAll", "Introspect", "PropertiesChanged", "Set",
               "alpha", "audit", "beta", "broken", "color", "ghost", "locked",
               "paint",
               "size", "weight">>

\* dir(cls): the sorted names of the attributes of cls and of its bases.
Dir(c) ==
    LET visible(n) == \E k \in Classes : InMro(c, k) /\ n \in DOMAIN ClassDict(k)
    IN  SelectSeq(AttrOrder, visible)

\* cls.__dict__.get(name): the class's own attribute, None when it has none.
DictGet(c, name) ==
    IF name \in DOMAIN ClassDict(c) THEN ClassDict(c)[name] ELSE NoneObject

\* getattr(type(self), name): the first class of the MRO that has the attribute.
RECURSIVE ResolveIn(_, _)
ResolveIn(mro, name) ==
    IF mro = <<>> THEN NoneObject
    ELSE IF name \in DOMAIN ClassDict(Head(mro)) THEN ClassDict(Head(mro))[name]
    ELSE ResolveIn(Tail(mro), name)

Resolve(c, name) == ResolveIn(Mro(c), name)

-----------------------------------------------------------------------------
(* The property-interface map: {interface: {property: attribute name}}, kept *)
(* as the sequence of its entries in insertion order                         *)

PifHasIface(pif, iface) == \E j \in 1..Len(pif) : pif[j].iface = iface

PifHasProp(pif, iface, prop) ==
    \E j \in 1..Len(pif) : pif[j].iface = iface /\ pif[j].prop = prop

\* pif[iface][prop]
PifName(pif, iface, prop) ==
    LET j == CHOOSE j \in 1..Len(pif) : pif[j].iface = iface /\ pif[j].prop = prop
    IN  pif[j].name

\* the keys of pif[iface], in the dict's iteration order
PifProps(pif, iface) ==
    LET ofIface(e) == e.iface = iface
        es == SelectSeq(pif, ofIface)
    IN  [j \in 1..Len(es) |-> es[j].prop]

\* pif[iface][prop] = name, creating pif[iface] when it is missing
\* An assignment that keeps the entry a pair already has.
PifPut_keeping(pif, iface, prop, name) ==
    IF PifHasProp(pif, iface, prop) THEN pif
    ELSE Append(pif, [iface |-> iface, prop |-> prop, name |-> name])

PifPut(pif, iface, prop, name) ==
    IF PifHasProp(pif, iface, prop)
    THEN [j \in 1..Len(pif) |->
            IF pif[j].iface = iface /\ pif[j].prop = prop
            THEN [pif[j] EXCEPT !.name = name] ELSE pif[j]]
    ELSE Append(pif, [iface |-> iface, prop |-> prop, name |-> name])

isinstance_property(obj) == obj.py_type = "property"

\* The body of the loop of _build_property_iface_map over the names left.
RECURSIVE BuildLoop(_, _, _)
BuildLoop(c, names, pif) ==
    IF names = <<>> THEN pif
    ELSE LET name == Head(names)
             obj == DictGet(c, name)
         IN  IF ~isinstance_property(obj)
             THEN BuildLoop(c, Tail(names), pif)
             ELSE BuildLoop(c, Tail(names),
                            PifPut(pif, obj.dbus_interface, obj.dbus_property, name))

_build_property_iface_map(c) == BuildLoop(c, Dir(c), <<>>)

\* The entry _property_iface_map of a class's __dict__: a dict object with an
\* identity, None (Object's class attribute), or no entry at all.
MapObj(id, pif) == [id |-> id, pif |-> pif]
NoneMap == MapObj(0, <<>>)
Absent == MapObj(-1, <<>>)

\* cls._property_iface_map: the attribute as the MRO of cls resolves it.
RECURSIVE LookupIn(_, _)
LookupIn(cm, mro) ==
    IF mro = <<>> THEN NoneMap
    ELSE IF cm[Head(mro)] # Absent THEN cm[Head(mro)]
    ELSE LookupIn(cm, Tail(mro))

ClsAttr(cm, c) == LookupIn(cm, Mro(c))

\* A slip: the test is "if not cls._property_iface_map", true of an empty dict.
_get_property_iface_map_truthy(cm, nid, c) ==
    IF ClsAttr(cm, c) = NoneMap \/ ClsAttr(cm, c).pif = <<>>
    THEN LET property_iface_map == MapObj(nid, _build_property_iface_map(c))
             cm2 == [cm EXCEPT ![c] = property_iface_map]
         IN  [cm |-> cm2, nid |-> nid + 1, built |-> TRUE, ret |-> ClsAttr(cm2, c)]
    ELSE [cm |-> cm, nid |-> nid, built |-> FALSE, ret |-> ClsAttr(cm, c)]

\* _get_property_iface_map run without interruption: the class dicts after
\* it, the map it returns, whether it built.
_get_property_iface_map(cm, nid, c) ==
    IF ClsAttr(cm, c) = NoneMap
    THEN LET property_iface_map == MapObj(nid, _build_property_iface_map(c))
             cm2 == [cm EXCEPT ![c] = property_iface_map]
         IN  [cm |-> cm2, nid |-> nid + 1, built |-> TRUE, ret |-> ClsAttr(cm2, c)]
    ELSE [cm |-> cm, nid |-> nid, built |-> FALSE, ret |-> ClsAttr(cm, c)]

-----------------------------------------------------------------------------
(* Calls of the user's accessor functions and of the descriptor protocol *)

Values == {"red", "blue"}
Slots == {"_color", "_weight"}
InitStore == [k \in Slots |-> "red"]

\* What a call gives back: a value or an exception, the instance's storage
\* after it, the PropertiesChanged signals emitted and explicit calls of the
\* PropertiesChanged operation made during it, and the user functions it ran.
CallOut(ok, value, exc, store, nsig, nnotify, called) ==
    [ok |-> ok, value |-> value, exc |-> exc, store |-> store,
     nsig |-> nsig, nnotify |-> nnotify, called |-> called]

\* Object.PropertiesChanged is a dbus.service.signal: a call of it emits the
\* signal once; em is the number of signals emitted before the call.
PropertiesChanged(em) == em + 1

\* self._getf(instance)
CallGetter(f, store) ==
    CASE f.kind = "get_store" ->
            CallOut(TRUE, store[f.slot], NoExc, store, 0, 0, <<f.name>>)
      [] f.kind = "get_const" ->
            CallOut(TRUE, f.slot, NoExc, store, 0, 0, <<f.name>>)
      [] f.kind = "raise_dbus" ->
            CallOut(FALSE, None, DBusException(<< <<f.slot>> >>), store, 0, 0,
                    <<f.name>>)
      [] OTHER ->
            CallOut(FALSE, None, Exc("RuntimeError", None, << <<f.slot>> >>),
                    store, 0, 0, <<f.name>>)

\* self._setf(instance, value)
CallSetter(f, store, value) ==
    CASE f.kind = "set_store" ->
            CallOut(TRUE, None, NoExc, [store EXCEPT ![f.slot] = value], 0, 0,
                    <<f.name>>)
      [] f.kind = "set_store_notify" ->
            CallOut(TRUE, None, NoExc, [store EXCEPT ![f.slot] = value],
                    PropertiesChanged(0), 1, <<f.name>>)
      [] f.kind = "raise_dbus" ->
            CallOut(FALSE, None, DBusException(<< <<f.slot>> >>), store, 0, 0,
                    <<f.name>>)
      [] OTHER ->
            CallOut(FALSE, None, Exc("RuntimeError", None, << <<f.slot>> >>),
                    store, 0, 0, <<f.name>>)

\* property.__get__(self, instance, owner) with an instance
property_get(self, store) ==
    IF self.getf = NoFunc
    THEN CallOut(FALSE, None, DBusException(<< <<"property is not readable">> >>),
                 store, 0, 0, <<>>)
    ELSE CallGetter(self.getf, store)

\* A slip: __set__ without the guard on a missing setter.
property_set_unguarded(self, store, value) == CallSetter(self.setf, store, value)

\* property.__set__(self, instance, value)
property_set(self, store, value) ==
    IF self.setf = NoFunc
    THEN CallOut(FALSE, None, DBusException(<< <<"property is not writable">> >>),
                 store, 0, 0, <<>>)
    ELSE CallSetter(self.setf, store, value)

\* getattr(self, name) on an instance of class c
getattr(c, store, name) ==
    LET obj == Resolve(c, name)
    IN  IF isinstance_property(obj) THEN property_get(obj, store)
        ELSE IF obj = NoneObject
        THEN CallOut(FALSE, None, Exc("AttributeError", None, << <<name>> >>),
                     store, 0, 0, <<>>)
        ELSE CallOut(TRUE, obj.py_type, NoExc, store, 0, 0, <<>>)

\* A setattr that stores in the instance and never reaches the descriptor.
setattr_bypassing(c, store, name, value) ==
    CallOut(TRUE, None, NoExc, store, 0, 0, <<>>)

\* setattr(self, name, value) on an instance of class c
setattr(c, store, name, value) ==
    LET obj == Resolve(c, name)
    IN  IF isinstance_property(obj) THEN property_set(obj, store, value)
        ELSE CallOut(TRUE, None, NoExc, store, 0, 0, <<>>)

-----------------------------------------------------------------------------
(* The handlers of org.freedesktop.DBus.Properties on class Object *)

\* The state a handler runs in and leaves: the class dicts, the allocator,
\* the build counts and the receiver's storage.
World(cm, nid, builds, store) ==
    [cm |-> cm, nid |-> nid, builds |-> builds, store |-> store]

\* What the caller of a handler observes, with the state the handler left.
Reply(w, ok, value, mapping, exc, log, nsig, nnotify, called, mapid) ==
    [w |-> w, ok |-> ok, value |-> value, mapping |-> mapping, exc |-> exc,
     log |-> log, nsig |-> nsig, nnotify |-> nnotify, called |-> called,
     mapid |-> mapid]

\* The state after the classmethod returned g, and the map it returned.
MapLookup(w, c, g) ==
    [w |-> [w EXCEPT !.cm = g.cm, !.nid = g.nid,
                     !.builds = IF g.built THEN [@ EXCEPT ![c] = @ + 1] ELSE @],
     map |-> g.ret]

\* property_iface_map = self._get_property_iface_map()
GetMap(w, c) == MapLookup(w, c, _get_property_iface_map(w.cm, w.nid, c))

NoSuchInterface(iface) ==
    DBusException(<< <<PROPERTIES_IFACE>>, <<"No such interface ", iface>> >>)

\* A slip: the unknown-property branch raises the unknown-interface error.
NoSuchProperty_copied(iface, prop) == NoSuchInterface(iface)

NoSuchProperty(iface, prop) ==
    DBusException(<< <<PROPERTIES_IFACE>>, <<"No such property ", iface, ":", prop>> >>)

UnableToGet(iface, prop, exc) ==
    DBusException(<< <<PROPERTIES_IFACE>>,
                     <<"Unable to get property interface/property ", iface, ":",
                       prop, ": ">> \o Repr(exc) >>)

UnableToSet(iface, prop, exc) ==
    DBusException(<< <<PROPERTIES_IFACE>>,
                     <<"Unable to set property ", iface, ":", prop, ": ">>
                     \o Repr(exc) >>)

\* logger.exception(msg, ...): one entry with the message and the traceback
LogException(msg, exc) == [msg |-> msg, exc_info |-> exc]

\* A handler raises exc before any accessor ran.
Raise(m, exc) == Reply(m.w, FALSE, None, {}, exc, <<>>, 0, 0, <<>>, m.map.id)

\* A try block of Get that logs and wraps whatever getattr raises.
GetTry_wrapping(m, interface_name, property_name, r) ==
    IF r.ok
    THEN Reply(m.w, TRUE, r.value, {}, NoExc, <<>>, r.nsig, r.nnotify,
               r.called, m.map.id)
    ELSE Reply(m.w, FALSE, None, {},
               UnableToGet(interface_name, property_name, r.exc),
               <<LogException("runaway exception from Get", r.exc)>>,
               r.nsig, r.nnotify, r.called, m.map.id)

\* The try block of Get, r being the outcome of getattr(self, name):
\* return it, re-raise a DBusException, log and wrap any other exception.
GetTry(m, interface_name, property_name, r) ==
    IF r.ok
    THEN Reply(m.w, TRUE, r.value, {}, NoExc, <<>>, r.nsig, r.nnotify,
               r.called, m.map.id)
    ELSE IF r.exc.type = "DBusException"
    THEN Reply(m.w, FALSE, None, {}, r.exc, <<>>, r.nsig, r.nnotify,
               r.called, m.map.id)
    ELSE Reply(m.w, FALSE, None, {},
               UnableToGet(interface_name, property_name, r.exc),
               <<LogException("runaway exception from Get", r.exc)>>,
               r.nsig, r.nnotify, r.called, m.map.id)

\* The body of Get after the lookup m of the map, self of class c.
GetBody(m, c, interface_name, property_name) ==
    IF ~PifHasIface(m.map.pif, interface_name)
    THEN Raise(m, NoSuchInterface(interface_name))
    ELSE IF ~PifHasProp(m.map.pif, interface_name, property_name)
    THEN Raise(m, NoSuchProperty(interface_name, property_name))
    ELSE GetTry(m, interface_name, property_name,
                getattr(c, m.w.store,
                        PifName(m.map.pif, interface_name, property_name)))

\* Object.Get(self, interface_name, property_name), self of class c
Get(w, c, interface_name, property_name) ==
    GetBody(GetMap(w, c), c, interface_name, property_name)

\* A slip: Set emits PropertiesChanged itself after a successful setattr.
SetTry_emitting(m, interface_name, property_name, r) ==
    IF r.ok
    THEN Reply([m.w EXCEPT !.store = r.store], TRUE, None, {}, NoExc, <<>>,
               PropertiesChanged(r.nsig), r.nnotify, r.called, m.map.id)
    ELSE IF r.exc.type = "DBusException"
    THEN Reply([m.w EXCEPT !.store = r.store], FALSE, None, {}, r.exc, <<>>,
               r.nsig, r.nnotify, r.called, m.map.id)
    ELSE Reply([m.w EXCEPT !.store = r.store], FALSE, None, {},
               UnableToSet(interface_name, property_name, r.exc),
               <<LogException("runaway exception from Set", r.exc)>>,
               r.nsig, r.nnotify, r.called, m.map.id)

\* The try block of Set, r being the outcome of setattr(self, name, value):
\* return, re-raise a DBusException, log and wrap any other exception.
SetTry(m, interface_name, property_name, r) ==
    IF r.ok
    THEN Reply([m.w EXCEPT !.store = r.store], TRUE, None, {}, NoExc, <<>>,
               r.nsig, r.nnotify, r.called, m.map.id)
    ELSE IF r.exc.type = "DBusException"
    THEN Reply([m.w EXCEPT !.store = r.store], FALSE, None, {}, r.exc, <<>>,
               r.nsig, r.nnotify, r.called, m.map.id)
    ELSE Reply([m.w EXCEPT !.store = r.store], FALSE, None, {},
               UnableToSet(interface_name, property_name, r.exc),
               <<LogException("runaway exception from Set", r.exc)>>,
               r.nsig, r.nnotify, r.called, m.map.id)

\* A Set that assigns the attribute named like the property first and
\* validates the interface and the property afterwards.
SetBody_eager(m, c, interface_name, property_name, value) ==
    IF ~PifHasIface(m.map.pif, interface_name)
    THEN Raise([m EXCEPT !.w.store =
                   setattr(c, m.w.store, property_name, value).store],
               NoSuchInterface(interface_name))
    ELSE IF ~PifHasProp(m.map.pif, interface_name, property_name)
    THEN Raise(m, NoSuchProperty(interface_name, property_name))
    ELSE SetTry(m, interface_name, property_name,
                setattr(c, m.w.store,
                        PifName(m.map.pif, interface_name, property_name), value))

\* The body of Set after the lookup m of the map, self of class c.
SetBody(m, c, interface_name, property_name, value) ==
    IF ~PifHasIface(m.map.pif, interface_name)
    THEN Raise(m, NoSuchInterface(interface_name))
    ELSE IF ~PifHasProp(m.map.pif, interface_name, property_name)
    THEN Raise(m, NoSuchProperty(interface_name, property_name))
    ELSE SetTry(m, interface_name, property_name,
                setattr(c, m.w.store,
                        PifName(m.map.pif, interface_name, property_name), value))

\* Object.Set(self, interface_name, property_name, value), self of class c
Set(w, c, interface_name, property_name, value) ==
    SetBody(GetMap(w, c), c, interface_name, property_name, value)

RECURSIVE GetAllLoop(_, _, _, _, _)

\* A slip: a property whose Get raises is left out of the result.
GetAllStep_skipping(acc, c, interface_name, names, mapid, g) ==
    GetAllLoop(
        Reply(g.w, TRUE, None,
              IF g.ok THEN acc.mapping \cup {<<Head(names), g.value>>}
              ELSE acc.mapping,
              NoExc, acc.log \o g.log, acc.nsig + g.nsig,
              acc.nnotify + g.nnotify, acc.called \o g.called, mapid),
        c, interface_name, Tail(names), mapid)

\* One item of the dict comprehension of GetAll, g being the reply of
\* self.Get(interface_name, Head(names)): the value is stored under the
\* name, or the comprehension ends with the error Get raised.
GetAllStep(acc, c, interface_name, names, mapid, g) ==
    IF g.ok
    THEN GetAllLoop(
             Reply(g.w, TRUE, None,
                   {e \in acc.mapping : e[1] # Head(names)}
                       \cup {<<Head(names), g.value>>},
                   NoExc, acc.log \o g.log, acc.nsig + g.nsig,
                   acc.nnotify + g.nnotify, acc.called \o g.called, mapid),
             c, interface_name, Tail(names), mapid)
    ELSE Reply(g.w, FALSE, None, {}, g.exc, acc.log \o g.log,
               acc.nsig + g.nsig, acc.nnotify + g.nnotify,
               acc.called \o g.called, mapid)

\* The dict comprehension of GetAll over the property names left.
GetAllLoop(acc, c, interface_name, names, mapid) ==
    IF names = <<>> THEN acc
    ELSE GetAllStep(acc, c, interface_name, names, mapid,
                    Get(acc.w, c, interface_name, Head(names)))

\* A GetAll that answers an interface it does not know with no properties.
GetAllBody_lenient(m, c, interface_name) ==
    GetAllLoop(Reply(m.w, TRUE, None, {}, NoExc, <<>>, 0, 0, <<>>, m.map.id),
               c, interface_name, PifProps(m.map.pif, interface_name),
               m.map.id)

\* The body of GetAll after the lookup m of the map, self of class c.
GetAllBody(m, c, interface_name) ==
    IF ~PifHasIface(m.map.pif, interface_name)
    THEN Raise(m, NoSuchInterface(interface_name))
    ELSE GetAllLoop(Reply(m.w, TRUE, None, {}, NoExc, <<>>, 0, 0, <<>>, m.map.id),
                    c, interface_name, PifProps(m.map.pif, interface_name),
                    m.map.id)

\* Object.GetAll(self, interface_name), self of class c
GetAll(w, c, interface_name) == GetAllBody(GetMap(w, c), c, interface_name)

-----------------------------------------------------------------------------
(* Introspect: the class table kept by dbus.service.InterfaceType, the       *)
(* reflection of its members, and the child objects of the connection        *)

\* method_table[func.__name__] = func in the table of interface iface: a new
\* key is appended, a known key keeps its place.
TablePut(tab, iface, key, func) ==
    IF \E j \in DOMAIN tab : tab[j].iface = iface /\ tab[j].key = key
    THEN [j \in DOMAIN tab |->
            IF tab[j].iface = iface /\ tab[j].key = key
            THEN [iface |-> iface, key |-> key, func |-> func]
            ELSE tab[j]]
    ELSE Append(tab, [iface |-> iface, key |-> key, func |-> func])

\* The members of the class body that carry _dbus_interface, added to the
\* table merged from the base class.
RECURSIVE TableOwn(_, _, _)
TableOwn(c, names, tab) ==
    IF names = <<>> THEN tab
    ELSE TableOwn(c, Tail(names),
                  TablePut(tab, ClassDict(c)[Head(names)].dbus_interface,
                           ClassDict(c)[Head(names)].name,
                           ClassDict(c)[Head(names)]))

\* self._dbus_class_table[module + '.' + classname] of class c
RECURSIVE _dbus_class_table(_)
_dbus_class_table(c) ==
    TableOwn(c, DeclOrder(c),
             IF Parent(c) = None THEN <<>> ELSE _dbus_class_table(Parent(c)))

\* interfaces.items(): the interface names in the order of their first entry.
RECURSIVE IfaceOrder(_, _)
IfaceOrder(tab, seen) ==
    IF tab = <<>> THEN <<>>
    ELSE IF Head(tab).iface \in seen THEN IfaceOrder(Tail(tab), seen)
    ELSE <<Head(tab).iface>> \o IfaceOrder(Tail(tab), seen \cup {Head(tab).iface})

\* funcs.values() of one interface
TableFuncs(tab, iface) ==
    LET sel == SelectSeq(tab, LAMBDA e : e.iface = iface)
    IN  [j \in DOMAIN sel |-> sel[j].func]

\* One element of the introspection document.
Elem(tag, name, type, access) ==
    [tag |-> tag, name |-> name, type |-> type, access |-> access]

_reflect_on_method(func) == Elem("method", func.name, None, None)
_reflect_on_signal(func) == Elem("signal", func.name, None, None)

\* The property element, or the error raised while evaluating
\* func.dbus_access_flag for it.
ReflectProperty(func, flag) ==
    IF flag.ok
    THEN Flag(TRUE, Elem("property", func.dbus_property, func.signature, flag.value),
              NoExc)
    ELSE flag

\* InterfaceType._reflect_on_property(cls, func)
_reflect_on_property(func) == ReflectProperty(func, dbus_access_flag(func))

\* The reflection of one member of an interface.
ReflectFunc(func) ==
    IF isinstance_property(func) THEN _reflect_on_property(func)
    ELSE IF func.kind = "method" THEN Flag(TRUE, _reflect_on_method(func), NoExc)
    ELSE Flag(TRUE, _reflect_on_signal(func), NoExc)

\* for func in funcs.values(): out is the document so far.
RECURSIVE ReflectFuncs(_, _)
ReflectFuncStep(funcs, out, r) ==
    IF r.ok THEN ReflectFuncs(Tail(funcs), Append(out, r.value)) ELSE r

ReflectFuncs(funcs, out) ==
    IF funcs = <<>> THEN Flag(TRUE, out, NoExc)
    ELSE ReflectFuncStep(funcs, out, ReflectFunc(Head(funcs)))

\* for (name, funcs) in interfaces.items()
RECURSIVE ReflectIfaces(_, _, _)
ReflectIfaceStep(tab, ifaces, r) ==
    IF r.ok
    THEN ReflectIfaces(tab, Tail(ifaces),
                       Append(r.value, Elem("/interface", Head(ifaces), None, None)))
    ELSE r

ReflectIfaces(tab, ifaces, out) ==
    IF ifaces = <<>> THEN Flag(TRUE, out, NoExc)
    ELSE ReflectIfaceStep(tab, ifaces,
             ReflectFuncs(TableFuncs(tab, Head(ifaces)),
                          Append(out, Elem("interface", Head(ifaces), None, None))))

\* The names a child object can be exported under, in the order the
\* connection lists them.
ChildNames == <<"a", "b">>

\* A connection that lists no child object.
list_exported_child_objects_none(registered, object_path) == <<>>

\* connection.list_exported_child_objects(object_path)
list_exported_child_objects(registered, object_path) ==
    SelectSeq(ChildNames, LAMBDA n : <<object_path, n>> \in registered)

\* The tail of the document: one node per child, then the closing tag.
ChildNodes(object_path, kids) ==
    [j \in DOMAIN kids |-> Elem("child", kids[j], None, None)]
        \o <<Elem("/node", object_path, None, None)>>

\* The end of Introspect: r is the outcome of the loop over the interfaces.
IntrospectDone(w, object_path, kids, r) ==
    IF r.ok
    THEN Reply(w, TRUE, r.value \o ChildNodes(object_path, kids), {}, NoExc,
               <<>>, 0, 0, <<>>, 0)
    ELSE Reply(w, FALSE, None, {}, r.exc, <<>>, 0, 0, <<>>, 0)

\* Object.Introspect(self, object_path, connection), self of class c
Introspect(w, c, object_path, registered) ==
    IntrospectDone(w, object_path,
                   list_exported_child_objects(registered, object_path),
                   ReflectIfaces(_dbus_class_table(c),
                                 IfaceOrder(_dbus_class_table(c), {}),
                                 <<Elem("node", object_path, None, None)>>))

-----------------------------------------------------------------------------
(* The state machine: handler calls dispatched one at a time *)

IfaceInputs == {IWidget, IAdmin, IGadget, IOther}
\* The property names tried with an interface: those some class declares
\* under it and one nobody declares; with the unknown interface, a name that
\* exists elsewhere and one that does not.
PropInputs(iface) ==
    IF iface = IOther THEN {"color", "nosuch"}
    ELSE {"nosuch"} \cup
         {d.dbus_property :
            d \in {dd \in {WidgetDict[n] : n \in DOMAIN WidgetDict}
                           \cup {GadgetDict[n] : n \in DOMAIN GadgetDict} :
                      dd.dbus_interface = iface}}
\* The values Set is tried with: every value for a property some class
\* declares, one value for a name or an interface nobody declares.
ValueInputs(iface, prop) ==
    IF iface = IOther \/ prop = "nosuch" THEN {"red"} ELSE Values
Threads == 1..NumThreads

\* The classes the application instantiates and exports on the bus.
Exported == {"Widget", "Gadget"}

NoCall ==
    [op |-> None, inst |-> 0, cls |-> None, iface |-> None, prop |-> None,
     arg |-> None, ok |-> TRUE, value |-> None, mapping |-> {}, exc |-> NoExc,
     log |-> <<>>, nsig |-> 0, nnotify |-> 0, called |-> <<>>, mapid |-> 0,
     built |-> FALSE, doc |-> <<>>]

\* The record of a handler call: its inputs, the reply, and whether the call
\* ran _build_property_iface_map. The document Introspect returns is kept
\* apart from the values Get returns.
Call(op, i, iface, prop, arg, r) ==
    [op |-> op, inst |-> i, cls |-> insts[i].cls, iface |-> iface, prop |-> prop,
     arg |-> arg, ok |-> r.ok,
     value |-> IF op = "Introspect" THEN None ELSE r.value,
     doc |-> IF op = "Introspect" /\ r.ok THEN r.value ELSE <<>>,
     mapping |-> r.mapping,
     exc |-> r.exc, log |-> r.log, nsig |-> r.nsig, nnotify |-> r.nnotify,
     called |-> r.called, mapid |-> r.mapid, built |-> r.w.nid # nextId]

WorldOf(i) == World(clsMap, nextId, buildCount, insts[i].store)

\* The state after a handler call on instance i with reply r.
Commit(op, i, iface, prop, arg, r) ==
    /\ emitted + r.nsig <= MaxSignals
    /\ clsMap' = r.w.cm
    /\ nextId' = r.w.nid
    /\ buildCount' = r.w.builds
    /\ insts' = [insts EXCEPT ![i].store = r.w.store]
    /\ emitted' = emitted + r.nsig
    /\ notified' = notified + r.nnotify
    /\ last' = Call(op, i, iface, prop, arg, r)
    /\ UNCHANGED children
    /\ UNCHANGED threadVars
    /\ UNCHANGED decl

\* No descriptor is being declared. d is the descriptor, pre the descriptor
\* before the last decorator was applied, given and setter the arguments of
\* the constructor, func the function last decorated.
NoDecl ==
    [d |-> NoneObject, pre |-> NoneObject, given |-> None, setter |-> FALSE,
     func |-> NoFunc, step |-> None]

Init ==
    /\ clsMap = [c \in Classes |-> IF c = "Object" THEN NoneMap ELSE Absent]
    /\ nextId = 1
    /\ buildCount = [c \in Classes |-> 0]
    /\ insts = <<>>
    /\ emitted = 0
    /\ notified = 0
    /\ last = NoCall
    /\ children = {}
    /\ decl = NoDecl
    /\ tpc = [t \in Threads |-> "idle"]
    /\ tcls = [t \in Threads |-> None]
    /\ tloc = [t \in Threads |-> NoneMap]
    /\ tgot = [t \in Threads |-> NoneMap]
    /\ published = [c \in Classes |-> {}]

\* An instance of class c is created and exported.
NewInstance(c) ==
    /\ Len(insts) < MaxInstances
    /\ insts' = Append(insts, [cls |-> c, store |-> InitStore])
    /\ UNCHANGED <<clsMap, nextId, buildCount, emitted, notified, last, children>>
    /\ UNCHANGED threadVars
    /\ UNCHANGED decl

\* The last instance created is unexported and destroyed.
RemoveInstance ==
    /\ Len(insts) > 0
    /\ insts' = SubSeq(insts, 1, Len(insts) - 1)
    /\ last' = NoCall
    /\ UNCHANGED <<clsMap, nextId, buildCount, emitted, notified, children>>
    /\ UNCHANGED threadVars
    /\ UNCHANGED decl

DoGet(i, iface, prop) ==
    \E r \in {Get(WorldOf(i), insts[i].cls, iface, prop)} :
        Commit("Get", i, iface, prop, None, r)

DoSet(i, iface, prop, v) ==
    \E r \in {Set(WorldOf(i), insts[i].cls, iface, prop, v)} :
        Commit("Set", i, iface, prop, v, r)

DoGetAll(i, iface) ==
    \E r \in {GetAll(WorldOf(i), insts[i].cls, iface)} :
        Commit("GetAll", i, iface, None, None, r)

\* Application code calls self.PropertiesChanged(...) on instance i.
DoNotify(i) ==
    /\ emitted < MaxSignals
    /\ emitted' = PropertiesChanged(emitted)
    /\ notified' = notified + 1
    /\ UNCHANGED <<clsMap, nextId, buildCount, insts, last, children>>
    /\ UNCHANGED threadVars
    /\ UNCHANGED decl

\* The path an instance is exported under.
ObjectPath(i) == i

DoIntrospect(i) ==
    \E r \in {Introspect(WorldOf(i), insts[i].cls, ObjectPath(i), children)} :
        Commit("Introspect", i, None, None, None, r)

\* A child object is exported under the path of instance i.
RegisterChild(i, n) ==
    /\ Cardinality(children) < MaxChildren
    /\ <<ObjectPath(i), n>> \notin children
    /\ children' = children \cup {<<ObjectPath(i), n>>}
    /\ UNCHANGED <<clsMap, nextId, buildCount, insts, emitted, notified, last>>
    /\ UNCHANGED threadVars
    /\ UNCHANGED decl

\* A child object is removed from the connection.
UnregisterChild(i, n) ==
    /\ <<ObjectPath(i), n>> \in children
    /\ children' = children \ {<<ObjectPath(i), n>>}
    /\ UNCHANGED <<clsMap, nextId, buildCount, insts, emitted, notified, last>>
    /\ UNCHANGED threadVars
    /\ UNCHANGED decl

Next ==
    \/ \E c \in Exported : NewInstance(c)
    \/ RemoveInstance
    \/ \E i \in 1..Len(insts), iface \in IfaceInputs :
          \E prop \in PropInputs(iface) : DoGet(i, iface, prop)
    \/ \E i \in 1..Len(insts), iface \in IfaceInputs :
          \E prop \in PropInputs(iface) :
              \E v \in ValueInputs(iface, prop) : DoSet(i, iface, prop, v)
    \/ \E i \in 1..Len(insts), iface \in IfaceInputs : DoGetAll(i, iface)
    \/ \E i \in 1..Len(insts) : DoNotify(i)
    \/ \E i \in 1..Len(insts) : DoIntrospect(i)

Spec == Init /\ [][Next]_vars

\* An application that exports a class without properties next to Widget.
ExportedCache == {"Widget", "Plain"}

\* Its callers also try the interface the handlers themselves are under.
IfaceInputsCache == IfaceInputs \cup {PROPERTIES_IFACE}

NextCache ==
    \/ \E c \in ExportedCache : NewInstance(c)
    \/ RemoveInstance
    \/ \E i \in 1..Len(insts), iface \in IfaceInputsCache :
          \E prop \in PropInputs(iface) : DoGet(i, iface, prop)
    \/ \E i \in 1..Len(insts), iface \in IfaceInputsCache :
          \E prop \in PropInputs(iface) :
              \E v \in ValueInputs(iface, prop) : DoSet(i, iface, prop, v)
    \/ \E i \in 1..Len(insts), iface \in IfaceInputsCache : DoGetAll(i, iface)
    \/ \E i \in 1..Len(insts) : DoNotify(i)
    \/ \E i \in 1..Len(insts) : DoIntrospect(i)

SpecCache == Init /\ [][NextCache]_vars

\* The classes, interfaces and properties of the calls that go with Introspect.
ExportedIntrospect == {"Gadget", "Twin", "Ghost"}
GetInputs == {<<IGadget, "weight">>, <<ITwin, "shade">>, <<IGhost, "ghost">>}

NextIntrospect ==
    \/ \E c \in ExportedIntrospect : NewInstance(c)
    \/ RemoveInstance
    \/ \E i \in 1..Len(insts), p \in GetInputs : DoGet(i, p[1], p[2])
    \/ \E i \in 1..Len(insts) : DoIntrospect(i)
    \/ \E i \in 1..Len(insts), n \in {ChildNames[k] : k \in DOMAIN ChildNames} :
          RegisterChild(i, n)
    \/ \E i \in 1..Len(insts), n \in {ChildNames[k] : k \in DOMAIN ChildNames} :
          UnregisterChild(i, n)

SpecIntrospect == Init /\ [][NextIntrospect]_vars

-----------------------------------------------------------------------------
(* The state machine of a class body declaring one descriptor: the           *)
(* constructor, then the descriptor used as a decorator and its setter and   *)
(* getter decorators, in any order.                                          *)

\* The arguments of property(...) and the functions a class body decorates.
SignatureInputs == {"s", "i"}
NameInputs == {None, "shade"}
FuncInputs ==
    {Fn("color", "get_store", "_color"), Fn("paint", "set_store", "_color")}

\* x = property(signature, IWidget, dbus_property, setter)
Construct(signature, dbus_property, setter) ==
    /\ decl' = [d |-> property_init(signature, IWidget, dbus_property, setter),
                pre |-> NoneObject, given |-> dbus_property, setter |-> setter,
                func |-> NoFunc, step |-> "init"]
    /\ UNCHANGED <<clsMap, nextId, buildCount>>
    /\ UNCHANGED serialVars
    /\ UNCHANGED threadVars

\* @x  def func(...)
Decorate(func) ==
    /\ decl.step # None
    /\ decl' = [decl EXCEPT !.d = property_call(decl.d, func), !.pre = decl.d,
                            !.func = func, !.step = "call"]
    /\ UNCHANGED <<clsMap, nextId, buildCount>>
    /\ UNCHANGED serialVars
    /\ UNCHANGED threadVars

\* @x.setter  def func(...)
DecorateSetter(func) ==
    /\ decl.step # None
    /\ decl' = [decl EXCEPT !.d = property_setter(decl.d, func), !.pre = decl.d,
                            !.func = func, !.step = "setter"]
    /\ UNCHANGED <<clsMap, nextId, buildCount>>
    /\ UNCHANGED serialVars
    /\ UNCHANGED threadVars

\* @x.getter  def func(...)
DecorateGetter(func) ==
    /\ decl.step # None
    /\ decl' = [decl EXCEPT !.d = property_getter(decl.d, func), !.pre = decl.d,
                            !.func = func, !.step = "getter"]
    /\ UNCHANGED <<clsMap, nextId, buildCount>>
    /\ UNCHANGED serialVars
    /\ UNCHANGED threadVars

NextDecl ==
    \/ \E signature \in SignatureInputs, dbus_property \in NameInputs,
          setter \in BOOLEAN : Construct(signature, dbus_property, setter)
    \/ \E func \in FuncInputs : Decorate(func)
    \/ \E func \in FuncInputs : DecorateSetter(func)
    \/ \E func \in FuncInputs : DecorateGetter(func)

SpecDecl == Init /\ [][NextDecl]_vars

-----------------------------------------------------------------------------
(* The state machine of threads inside _get_property_iface_map: the first   *)
(* statement of Get, Set and GetAll, one step per access to the class.      *)

\* Thread t enters Get, Set or GetAll on an object of class c.
T_Enter(t, c) ==
    /\ tpc[t] = "idle"
    /\ tpc' = [tpc EXCEPT ![t] = "check"]
    /\ tcls' = [tcls EXCEPT ![t] = c]
    /\ tloc' = [tloc EXCEPT ![t] = NoneMap]
    /\ tgot' = [tgot EXCEPT ![t] = NoneMap]
    /\ UNCHANGED <<clsMap, nextId, buildCount, published>>
    /\ UNCHANGED serialVars
    /\ UNCHANGED decl

\* if cls._property_iface_map is None:
T_Check(t) ==
    /\ tpc[t] = "check"
    /\ tpc' = [tpc EXCEPT ![t] =
                 IF ClsAttr(clsMap, tcls[t]) = NoneMap THEN "build" ELSE "return"]
    /\ UNCHANGED <<clsMap, nextId, buildCount, tcls, tloc, tgot, published>>
    /\ UNCHANGED serialVars
    /\ UNCHANGED decl

\* property_iface_map = cls._build_property_iface_map()
T_Build(t) ==
    /\ tpc[t] = "build"
    /\ tloc' = [tloc EXCEPT ![t] =
                  MapObj(nextId, _build_property_iface_map(tcls[t]))]
    /\ nextId' = nextId + 1
    /\ buildCount' = [buildCount EXCEPT ![tcls[t]] = @ + 1]
    /\ tpc' = [tpc EXCEPT ![t] = "publish"]
    /\ UNCHANGED <<clsMap, tcls, tgot, published>>
    /\ UNCHANGED serialVars
    /\ UNCHANGED decl

\* cls._property_iface_map = property_iface_map
T_Publish(t) ==
    /\ tpc[t] = "publish"
    /\ clsMap' = [clsMap EXCEPT ![tcls[t]] = tloc[t]]
    /\ published' = [published EXCEPT ![tcls[t]] = @ \cup {tloc[t].id}]
    /\ tpc' = [tpc EXCEPT ![t] = "return"]
    /\ UNCHANGED <<nextId, buildCount, tcls, tloc, tgot>>
    /\ UNCHANGED serialVars
    /\ UNCHANGED decl

\* return cls._property_iface_map
T_Return(t) ==
    /\ tpc[t] = "return"
    /\ tgot' = [tgot EXCEPT ![t] = ClsAttr(clsMap, tcls[t])]
    /\ tpc' = [tpc EXCEPT ![t] = "done"]
    /\ UNCHANGED <<clsMap, nextId, buildCount, tcls, tloc, published>>
    /\ UNCHANGED serialVars
    /\ UNCHANGED decl

\* The handler of thread t finishes; the thread takes the next call.
T_Exit(t) ==
    /\ tpc[t] = "done"
    /\ tpc' = [tpc EXCEPT ![t] = "idle"]
    /\ UNCHANGED <<clsMap, nextId, buildCount, tcls, tloc, tgot, published>>
    /\ UNCHANGED serialVars
    /\ UNCHANGED decl

NextThreads ==
    \/ \E t \in Threads, c \in Exported : T_Enter(t, c)
    \/ \E t \in Threads : T_Check(t)
    \/ \E t \in Threads : T_Build(t)
    \/ \E t \in Threads : T_Publish(t)
    \/ \E t \in Threads : T_Return(t)
    \/ \E t \in Threads : T_Exit(t)

SpecThreads == Init /\ [][NextThreads]_vars

-----------------------------------------------------------------------------
(* What a caller can read off a reply *)

\* The message text of an error: the last positional argument.
Message(e) == IF Len(e.args) = 0 THEN <<None>> ELSE e.args[Len(e.args)]

\* The failure kind of an error, read from its message text.
Kind(e) ==
    LET h == Message(e)[1]
    IN  CASE h = "No such interface " -> "unknown-interface"
          [] h = "No such property " -> "unknown-property"
          [] h = "property is not readable" -> "not-readable"
          [] h = "property is not writable" -> "not-writable"
          [] h \in {"Unable to get property interface/property ",
                    "Unable to set property "} -> "accessor-failed"
          [] OTHER -> "other"

\* The index the class of the last call resolves to, and the descriptor the
\* index leads to for the interface and property of the last call.
LastPif == ClsAttr(clsMap, last.cls).pif
LastIndexed == PifHasProp(LastPif, last.iface, last.prop)
LastDesc == Resolve(last.cls, PifName(LastPif, last.iface, last.prop))
LastStore == insts[last.inst].store

-----------------------------------------------------------------------------
(* C1: Get and Set with an interface name that is not in the index fail with *)
(* the unknown-interface error naming the interface, whatever the property   *)
(* name; with a known interface and a property name not registered under it  *)
(* they fail with the unknown-property error naming both. Neither failure is *)
(* logged or reported as accessor-failed, and no accessor runs.              *)
C1_LookupErrors ==
    last.op \in {"Get", "Set"} =>
        /\ ~PifHasIface(LastPif, last.iface) =>
              /\ ~last.ok
              /\ Kind(last.exc) = "unknown-interface"
              /\ Message(last.exc) = <<"No such interface ", last.iface>>
              /\ last.log = <<>> /\ last.called = <<>>
        /\ (PifHasIface(LastPif, last.iface) /\ ~LastIndexed) =>
              /\ ~last.ok
              /\ Kind(last.exc) = "unknown-property"
              /\ Message(last.exc) =
                    <<"No such property ", last.iface, ":", last.prop>>
              /\ last.log = <<>> /\ last.called = <<>>

\* Set with an unknown interface and an unknown property: the interface wins.
C1_Witness ==
    /\ last.op = "Set" /\ last.cls = "Widget"
    /\ last.iface = IOther /\ last.prop = "nosuch"
    /\ Kind(last.exc) = "unknown-interface"

(* C2: for an indexed property with only a getter bound, Set fails with      *)
(* not-writable without running any accessor and Get returns what the getter *)
(* returns; with only a setter bound, Get fails with not-readable and Set    *)
(* succeeds, having run the setter on the value.                             *)
C2_AccessModes ==
    (last.op \in {"Get", "Set"} /\ LastIndexed) =>
        /\ (LastDesc.getf # NoFunc /\ LastDesc.setf = NoFunc) =>
              /\ last.op = "Set" =>
                    /\ ~last.ok /\ Kind(last.exc) = "not-writable"
                    /\ last.called = <<>> /\ last.log = <<>>
              /\ (last.op = "Get" /\ CallGetter(LastDesc.getf, LastStore).ok) =>
                    /\ last.ok
                    /\ last.value = CallGetter(LastDesc.getf, LastStore).value
                    /\ last.called = <<LastDesc.getf.name>>
        /\ (LastDesc.getf = NoFunc /\ LastDesc.setf # NoFunc) =>
              /\ last.op = "Get" =>
                    /\ ~last.ok /\ Kind(last.exc) = "not-readable"
                    /\ last.called = <<>> /\ last.log = <<>>
              /\ (last.op = "Set" /\ LastDesc.setf.kind = "set_store") =>
                    /\ last.ok
                    /\ LastStore[LastDesc.setf.slot] = last.arg
                    /\ last.called = <<LastDesc.setf.name>>

\* Set on the read-only size is refused (the write-only paint is the
\* symmetric case).
C2_Witness ==
    /\ last.op = "Set" /\ last.cls = "Widget"
    /\ last.iface = IWidget /\ last.prop = "size"
    /\ Kind(last.exc) = "not-writable"

\* The property names a class declares under an interface: those of the
\* property descriptors among its attributes, its own and the inherited ones.
Declared(c, iface) ==
    {Resolve(c, Dir(c)[j]).dbus_property :
        j \in {k \in 1..Len(Dir(c)) :
                 /\ isinstance_property(Resolve(c, Dir(c)[k]))
                 /\ Resolve(c, Dir(c)[k]).dbus_interface = iface}}

Keys(mapping) == {e[1] : e \in mapping}

(* C3: for every class and every interface the class declares properties     *)
(* under, GetAll(interface) does not fail with unknown-interface, and the    *)
(* mapping it returns has exactly the declared property names as its keys.   *)
C3_GetAllKeys ==
    (last.op = "GetAll" /\ Declared(last.cls, last.iface) # {}) =>
        /\ Kind(last.exc) # "unknown-interface"
        /\ last.ok => Keys(last.mapping) = Declared(last.cls, last.iface)

\* The replies of Get, in the present state, for the properties of the index
\* under the interface of the last call, in the index's order.
LastGets ==
    LET props == PifProps(LastPif, last.iface)
    IN  [j \in 1..Len(props) |->
            Get(WorldOf(last.inst), last.cls, last.iface, props[j])]

(* C4: GetAll on an indexed interface returns a mapping only when the Get of *)
(* every property of the interface succeeds, and then with all of them; when *)
(* one fails, GetAll fails with the error of the first failing Get and hands *)
(* no mapping to the caller.                                                 *)
C4_AllOrNothing ==
    (last.op = "GetAll" /\ PifHasIface(LastPif, last.iface)) =>
        LET failing == {j \in DOMAIN LastGets : ~LastGets[j].ok}
        IN  IF failing = {}
            THEN /\ last.ok
                 /\ last.mapping =
                       {<<PifProps(LastPif, last.iface)[j], LastGets[j].value>> :
                           j \in DOMAIN LastGets}
            ELSE /\ ~last.ok
                 /\ last.mapping = {}
                 /\ \E j \in failing :
                       /\ \A k \in failing : j <= k
                       /\ last.exc = LastGets[j].exc

\* GetAll on the Admin interface: audit is read, then broken raises.
C4_Witness ==
    /\ last.op = "GetAll" /\ last.cls = "Widget" /\ last.iface = IAdmin
    /\ last.called = <<"audit", "broken">>
    /\ ~last.ok /\ last.mapping = {}

\* The accessor the last call ran raised an error that is no DBusException.
LastRunaway ==
    /\ last.op \in {"Get", "Set"}
    /\ LastIndexed
    /\ last.op = "Get" => LastDesc.getf.kind = "raise_runtime"
    /\ last.op = "Set" => LastDesc.setf.kind = "raise_runtime"

Category(e) == <<e.type, e.dbus_name>>

FailureKinds ==
    {"unknown-interface", "unknown-property", "not-readable", "not-writable",
     "accessor-failed"}

(* C6: two failures of different kinds reach the caller with different error *)
(* categories: whenever a failed call follows a failed call of another kind, *)
(* the categories of the two errors differ.                                  *)
C6_DistinctCategories ==
    [][(/\ ~last.ok /\ ~last'.ok
        /\ Kind(last.exc) \in FailureKinds /\ Kind(last'.exc) \in FailureKinds
        /\ Kind(last.exc) # Kind(last'.exc))
       => Category(last.exc) # Category(last'.exc)]_vars

(* C7: once the index of a class has been built, no later step replaces the  *)
(* class's index object, changes its contents or runs the build for the      *)
(* class again, and every Get, Set and GetAll on an instance of the class     *)
(* uses that very object; an empty index is kept like any other.             *)
C7_BuiltOnce ==
    [][\A c \in Classes :
          buildCount[c] >= 1 =>
              /\ clsMap'[c] = clsMap[c]
              /\ buildCount'[c] = buildCount[c]
              /\ (last'.op \in {"Get", "Set", "GetAll"} /\ last'.cls = c) =>
                    last'.mapid = clsMap[c].id]_vars

\* A call on a Plain instance, whose index was built (empty) by an earlier
\* call and an earlier instance.
C7_Witness ==
    /\ last.op # None /\ last.cls = "Plain" /\ ~last.built
    /\ buildCount["Plain"] = 1
    /\ clsMap["Plain"].pif = <<>>
    /\ last.mapid = clsMap["Plain"].id

(* C8: under every interleaving of threads in their first Get/Set/GetAll the *)
(* index of a class is built at most once, at most one index object is ever  *)
(* published for the class, and all threads that have returned from the      *)
(* lookup for the class hold the same object.                                *)
C8_BuildSerialized ==
    \A c \in Classes :
        /\ buildCount[c] <= 1
        /\ Cardinality(published[c]) <= 1
        /\ \A t1, t2 \in Threads :
              (tpc[t1] = "done" /\ tpc[t2] = "done" /\ tcls[t1] = c /\ tcls[t2] = c)
                  => tgot[t1].id = tgot[t2].id

(* C9: the index built for a class holds every property descriptor that is   *)
(* an attribute of the class, its own or inherited from a base class.        *)
C9_IndexHasInherited ==
    \A c \in Classes :
        clsMap[c].id > 0 =>
            \A j \in 1..Len(Dir(c)) :
                LET obj == Resolve(c, Dir(c)[j])
                IN  isinstance_property(obj) =>
                        PifHasProp(clsMap[c].pif, obj.dbus_interface,
                                   obj.dbus_property)

(* C10: every PropertiesChanged emission comes from an explicit call of the  *)
(* notification operation, by the application or inside a user setter: the   *)
(* emissions equal the explicit calls in number, each handler call emits as  *)
(* many signals as the accessors it ran called for, and Get and GetAll none. *)
C10_SetDoesNotNotify ==
    /\ emitted = notified
    /\ last.nsig = last.nnotify
    /\ (last.op = "Set" /\ LastIndexed /\ last.ok
            /\ LastDesc.setf.kind # "set_store_notify") => last.nsig = 0
    /\ last.op \in {"Get", "GetAll"} => last.nsig = 0

\* A successful Set of color, whose setter only stores.
C10_Witness ==
    /\ last.op = "Set" /\ last.ok /\ last.prop = "color" /\ last.arg = "blue"
    /\ last.called = <<"color">> /\ last.nsig = 0
    /\ LastStore["_color"] = "blue"

-----------------------------------------------------------------------------
\* A read-write descriptor whose getter returns the slot its setter stores in.
SharesStorage(d) ==
    /\ isinstance_property(d)
    /\ d.getf # NoFunc /\ d.setf # NoFunc
    /\ d.getf.kind = "get_store"
    /\ d.setf.kind \in {"set_store", "set_store_notify"}
    /\ d.getf.slot = d.setf.slot

\* The slot behind the indexed pair p of class c.
SlotOf(c, p) ==
    Resolve(c, PifName(ClsAttr(clsMap, c).pif, p[1], p[2])).getf.slot

\* The indexed pairs of interface and property of class c, as the index the
\* class resolves to has them, whose descriptor shares storage.
RoundTripPairs(c) ==
    LET pif == ClsAttr(clsMap, c).pif
    IN  {<<pif[j].iface, pif[j].prop>> :
            j \in {k \in DOMAIN pif : SharesStorage(Resolve(c, pif[k].name))}}

(* C11: for an indexed read-write property whose getter and setter share     *)
(* storage, a Get issued after a successful Set(interface, property, v)      *)
(* returns v, for every v, and a GetAll(interface) issued after it reports v *)
(* for the property; on an object whose storage is as constructed, Get       *)
(* returns the initial stored value.                                         *)
C11_RoundTrip ==
    /\ (last.op = "Set" /\ last.ok /\ LastIndexed /\ SharesStorage(LastDesc)) =>
          /\ \E g \in {Get(WorldOf(last.inst), last.cls, last.iface, last.prop)} :
                g.ok /\ g.value = last.arg
          /\ \E a \in {GetAll(WorldOf(last.inst), last.cls, last.iface)} :
                a.ok /\ <<last.prop, last.arg>> \in a.mapping
    /\ \A i \in 1..Len(insts) :
          insts[i].store = InitStore =>
              \A p \in RoundTripPairs(insts[i].cls) :
                  \E g \in {Get(WorldOf(i), insts[i].cls, p[1], p[2])} :
                      g.ok /\ g.value = InitStore[SlotOf(insts[i].cls, p)]

\* Set(IWidget, "color", "blue") succeeded on a Widget that held "red".
C11_Witness ==
    /\ last.op = "Set" /\ last.ok /\ last.cls = "Widget"
    /\ last.iface = IWidget /\ last.prop = "color" /\ last.arg = "blue"
    /\ InitStore["_color"] = "red"
    /\ Get(WorldOf(last.inst), "Widget", IWidget, "color").value = "blue"

-----------------------------------------------------------------------------
\* A descriptor no accessor was ever bound to.
Unbound(d) == isinstance_property(d) /\ d.getf = NoFunc /\ d.setf = NoFunc

DeclaresUnbound(c) == \E n \in DOMAIN ClassDict(c) : Unbound(ClassDict(c)[n])

(* C12: a class that declares a descriptor with neither a getter nor a       *)
(* setter never gets an index, because the first build of its index fails;   *)
(* and no Introspect call fails.                                             *)
C12_UnboundFailsBuild ==
    /\ \A c \in Classes : DeclaresUnbound(c) => clsMap[c].id <= 0
    /\ last.op = "Introspect" => last.ok

-----------------------------------------------------------------------------
(* C13: the access mode of a descriptor is "readwrite" exactly when a getter *)
(* and a setter are bound, "read" exactly when only a getter is bound,       *)
(* "write" exactly when only a setter is bound, and evaluating it fails with *)
(* a TypeError exactly when neither is bound.                                *)
C13_AccessFlag ==
    decl.step # None =>
        \E f \in {dbus_access_flag(decl.d)} :
            /\ (f.ok /\ f.value = "readwrite") <=>
                  (decl.d.getf # NoFunc /\ decl.d.setf # NoFunc)
            /\ (f.ok /\ f.value = "read") <=>
                  (decl.d.getf # NoFunc /\ decl.d.setf = NoFunc)
            /\ (f.ok /\ f.value = "write") <=>
                  (decl.d.getf = NoFunc /\ decl.d.setf # NoFunc)
            /\ (~f.ok /\ f.exc.type = "TypeError") <=>
                  (decl.d.getf = NoFunc /\ decl.d.setf = NoFunc)

\* A descriptor constructed with setter=True and used as a decorator once.
C13_Witness ==
    /\ decl.step = "call" /\ decl.setter
    /\ decl.d.getf = NoFunc /\ decl.d.setf # NoFunc
    /\ dbus_access_flag(decl.d).value = "write"

-----------------------------------------------------------------------------
\* The interface element the element at position j of a document is under.
IfaceAt(doc, j) ==
    doc[CHOOSE k \in 1..j :
            /\ doc[k].tag = "interface"
            /\ \A m \in (k + 1)..j : doc[m].tag # "interface"].name

\* The properties a document describes: interface, name, signature, access.
DocProps(doc) ==
    {<<IfaceAt(doc, j), doc[j].name, doc[j].type, doc[j].access>> :
        j \in {k \in DOMAIN doc : doc[k].tag = "property"}}

\* The properties of an index of class c, with the signature and the access
\* mode of the descriptor each entry leads to.
IndexProps(c, pif) ==
    {<<pif[j].iface, pif[j].prop, Resolve(c, pif[j].name).signature,
       dbus_access_flag(Resolve(c, pif[j].name)).value>> : j \in DOMAIN pif}

(* C14: the properties a successful Introspect describes, each under its     *)
(* interface with its name, signature and access mode, are exactly the       *)
(* properties of the index Get, Set and GetAll use for the class of the      *)
(* object, for classes that inherit properties as well.                      *)
C14_IntrospectIsIndex ==
    (last.op = "Introspect" /\ last.ok) =>
        DocProps(last.doc) =
            IndexProps(last.cls,
                       _get_property_iface_map(clsMap, nextId, last.cls).ret.pif)

-----------------------------------------------------------------------------
\* The child nodes of a document are the children now registered under the
\* path, one node each, and nothing but child nodes and the closing tag
\* follows a child node or the last interface.
ChildrenExact(doc, object_path) ==
    /\ \A n \in {ChildNames[k] : k \in DOMAIN ChildNames} :
          Cardinality({j \in DOMAIN doc :
                          doc[j].tag = "child" /\ doc[j].name = n}) =
              IF <<object_path, n>> \in children THEN 1 ELSE 0
    /\ \A j \in DOMAIN doc :
          doc[j].tag = "child" =>
              /\ \E k \in 1..j : doc[k].tag = "/interface"
              /\ \A k \in j..Len(doc) : doc[k].tag \in {"child", "/node"}

(* C15: in every state reached by registering and unregistering child        *)
(* objects, a successful Introspect on an object returns a description with  *)
(* exactly one child entry per child registered under its path at that time  *)
(* and none for any other, all placed after the interface descriptions.      *)
C15_LiveChildren ==
    \A i \in 1..Len(insts) :
        \E r \in {Introspect(WorldOf(i), insts[i].cls, ObjectPath(i), children)} :
            r.ok => ChildrenExact(r.value, ObjectPath(i))

\* Introspect has listed the child "b", the only one registered.
C15_Witness ==
    /\ last.op = "Introspect" /\ last.ok
    /\ children = {<<ObjectPath(last.inst), "b">>}
    /\ \E j \in DOMAIN last.doc :
          last.doc[j].tag = "child" /\ last.doc[j].name = "b"
    /\ ~\E j \in DOMAIN last.doc :
          last.doc[j].tag = "child" /\ last.doc[j].name = "a"

-----------------------------------------------------------------------------
(* C16: a descriptor constructed with an explicit property name keeps that   *)
(* name whatever is decorated with it; a descriptor constructed without one  *)
(* has no property name until it is used as a decorator, and then takes the  *)
(* name of the function it decorates.                                        *)
C16_PropertyName ==
    decl.step # None =>
        /\ decl.given # None => decl.d.dbus_property = decl.given
        /\ (decl.given = None /\ decl.step = "init") =>
              decl.d.dbus_property = None
        /\ (decl.given = None /\ decl.step = "call" /\ decl.pre.name = None) =>
              decl.d.dbus_property = decl.func.name

\* property("s", IWidget) has decorated the function paint.
C16_Witness ==
    /\ decl.step = "call" /\ decl.given = None /\ decl.pre.name = None
    /\ decl.func.name = "paint" /\ decl.d.dbus_property = "paint"

\* property("s", IWidget, "shade") has decorated the function paint.
C16_WitnessExplicit ==
    /\ decl.step = "call" /\ decl.given = "shade"
    /\ decl.func.name = "paint" /\ decl.d.dbus_property = "shade"

-----------------------------------------------------------------------------
(* C17: using a descriptor as a decorator binds the decorated function to    *)
(* the setter role when the descriptor was constructed with the setter flag  *)
(* and to the getter role otherwise, and leaves the other role as it was; a  *)
(* descriptor constructed with the flag, with no getter attached, is         *)
(* write-only: reading it fails with not-readable without running anything, *)
(* and writing it runs the decorated function.                               *)
C17_OneRole ==
    decl.step = "call" =>
        /\ decl.setter =>
              /\ decl.d.setf = decl.func /\ decl.d.getf = decl.pre.getf
        /\ ~decl.setter =>
              /\ decl.d.getf = decl.func /\ decl.d.setf = decl.pre.setf
        /\ (decl.setter /\ decl.d.getf = NoFunc) =>
              /\ dbus_access_flag(decl.d).value = "write"
              /\ \E g \in {property_get(decl.d, InitStore)} :
                    /\ ~g.ok /\ Kind(g.exc) = "not-readable" /\ g.called = <<>>
              /\ \A v \in Values :
                    property_set(decl.d, InitStore, v).called = <<decl.func.name>>

\* @property("s", IWidget, setter=True) def paint(self, value): ...
C17_Witness ==
    /\ decl.step = "call" /\ decl.setter /\ decl.pre.setf = NoFunc
    /\ decl.d.getf = NoFunc /\ decl.d.setf = decl.func
    /\ decl.func.name = "paint"
    /\ property_set(decl.d, InitStore, "blue").store["_color"] = "blue"

-----------------------------------------------------------------------------
(* C18: the index a Get, Set or GetAll on an instance of a class uses is the *)
(* one built from that class, whichever classes had their index built        *)
(* before: it is what the class's own first lookup would have built.         *)
C18_OrderIndependent ==
    last.op \in {"Get", "Set", "GetAll"} =>
        LastPif = _build_property_iface_map(last.cls)

-----------------------------------------------------------------------------
\* The attribute names of class c whose descriptors declare the pair.
Colliders(c, iface, prop) ==
    {n \in DOMAIN ClassDict(c) :
        /\ isinstance_property(ClassDict(c)[n])
        /\ ClassDict(c)[n].dbus_interface = iface
        /\ ClassDict(c)[n].dbus_property = prop}

\* The name of a set of attribute names that sorts last.
SortsLast(names) ==
    AttrOrder[CHOOSE j \in DOMAIN AttrOrder :
                 /\ AttrOrder[j] \in names
                 /\ \A k \in DOMAIN AttrOrder : AttrOrder[k] \in names => k <= j]

(* C19: in the index built for a class, every pair of interface and property *)
(* name that descriptors of the class declare has exactly one entry, also    *)
(* when several descriptors declare it, and the entry is bound to the        *)
(* attribute name that sorts last among them, whatever the order of the      *)
(* class body; Get on the pair runs the getter of that descriptor.           *)
C19_LastSortedWins ==
    /\ \A c \in Classes :
          clsMap[c].id > 0 =>
              \A n \in DOMAIN ClassDict(c) :
                  isinstance_property(ClassDict(c)[n]) =>
                      /\ Cardinality(
                            {j \in DOMAIN clsMap[c].pif :
                                /\ clsMap[c].pif[j].iface = ClassDict(c)[n].dbus_interface
                                /\ clsMap[c].pif[j].prop = ClassDict(c)[n].dbus_property})
                            = 1
                      /\ PifName(clsMap[c].pif, ClassDict(c)[n].dbus_interface,
                                 ClassDict(c)[n].dbus_property) =
                            SortsLast(Colliders(c, ClassDict(c)[n].dbus_interface,
                                                ClassDict(c)[n].dbus_property))
    /\ (last.op = "Get" /\ clsMap[last.cls].id > 0 /\ LastIndexed) =>
          \E w \in {ClassDict(last.cls)[
                        SortsLast(Colliders(last.cls, last.iface, last.prop))]} :
              w.getf # NoFunc => last.called = <<w.getf.name>>

\* Get(ITwin, "shade") on a Twin ran beta, declared before alpha.
C19_Witness ==
    /\ last.op = "Get" /\ last.cls = "Twin" /\ last.ok
    /\ last.iface = ITwin /\ last.prop = "shade"
    /\ Colliders("Twin", ITwin, "shade") = {"alpha", "beta"}
    /\ DeclOrder("Twin") = <<"beta", "alpha">>
    /\ clsMap["Twin"].id > 0 /\ Len(clsMap["Twin"].pif) = 1
    /\ last.called = <<"beta">> /\ last.value = "b"

-----------------------------------------------------------------------------
\* What the caller of Get observes.
Outcome(g) == <<g.ok, g.value, g.exc>>

\* The failures of Set that precede the call of the setter.
RefusedKinds == {"unknown-interface", "unknown-property", "not-writable"}

(* C20: in every reachable state, a Set on any object that fails with        *)
(* unknown-interface, unknown-property or not-writable has run no user       *)
(* setter and emitted nothing, leaves the storage of the object as it was,   *)
(* and every Get after it has the outcome it would have had before it; the   *)
(* Gets need no comparing where the Set left the whole state as it was.      *)
C20_FailedSetNoEffect ==
    /\ (last.op = "Set" /\ ~last.ok /\ Kind(last.exc) \in RefusedKinds) =>
          /\ last.called = <<>> /\ last.nsig = 0 /\ last.nnotify = 0
    /\ \A i \in 1..Len(insts), iface \in IfaceInputs, v \in Values :
          \A prop \in PropInputs(iface) :
              \E r \in {Set(WorldOf(i), insts[i].cls, iface, prop, v)} :
                  (~r.ok /\ Kind(r.exc) \in RefusedKinds) =>
                      /\ r.called = <<>> /\ r.nsig = 0 /\ r.nnotify = 0
                      /\ r.w.store = insts[i].store
                      /\ \/ r.w = WorldOf(i)
                         \/ \A gi \in IfaceInputs :
                               \A gp \in PropInputs(gi) :
                                   Outcome(Get(r.w, insts[i].cls, gi, gp)) =
                                       Outcome(Get(WorldOf(i), insts[i].cls, gi, gp))

\* Set(IWidget, "size", "red") was refused on a Widget whose color had been
\* set to "blue".
C20_Witness ==
    /\ last.op = "Set" /\ ~last.ok /\ last.cls = "Widget"
    /\ last.iface = IWidget /\ last.prop = "size" /\ last.arg = "red"
    /\ Kind(last.exc) = "not-writable" /\ last.called = <<>>
    /\ LastStore["_color"] = "blue"
    /\ Get(WorldOf(last.inst), "Widget", IWidget, "color").value = "blue"

-----------------------------------------------------------------------------
\* What the accessor the last call ran did, run again on the storage the call
\* left (the accessors that raise leave the storage alone).
LastAccessor ==
    IF last.op = "Get" THEN CallGetter(LastDesc.getf, LastStore)
    ELSE CallSetter(LastDesc.setf, LastStore, last.arg)

\* The last call was a Get or a Set that reached a user accessor, and the
\* accessor raised.
LastAccessorRaised ==
    /\ last.op \in {"Get", "Set"} /\ LastIndexed
    /\ last.op = "Get" => LastDesc.getf # NoFunc
    /\ last.op = "Set" => LastDesc.setf # NoFunc
    /\ ~LastAccessor.ok

(* C21: when the user's getter raises during Get, or the user's setter       *)
(* during Set, a DBusException reaches the caller as the very error raised   *)
(* and nothing is logged; an error of any other type is logged once and the  *)
(* caller receives the accessor-failed error instead of it.                  *)
C21_ProtocolErrorPasses ==
    LastAccessorRaised =>
        IF LastAccessor.exc.type = "DBusException"
        THEN /\ ~last.ok /\ last.exc = LastAccessor.exc
             /\ Kind(last.exc) # "accessor-failed"
             /\ last.log = <<>>
        ELSE /\ ~last.ok /\ last.exc # LastAccessor.exc
             /\ Kind(last.exc) = "accessor-failed"
             /\ Len(last.log) = 1

\* Set of the property whose setter raises DBusException("denied").
C21_Witness ==
    /\ last.op = "Set" /\ last.cls = "Widget"
    /\ last.iface = IAdmin /\ last.prop = "locked"
    /\ last.called = <<"locked">>
    /\ ~last.ok /\ last.exc = DBusException(<< <<"denied">> >>)
    /\ last.log = <<>>

\* Get of the same property: its getter raises DBusException("denied").
C21_WitnessGet ==
    /\ last.op = "Get" /\ last.cls = "Widget"
    /\ last.iface = IAdmin /\ last.prop = "locked"
    /\ last.called = <<"locked">>
    /\ ~last.ok /\ last.exc = DBusException(<< <<"denied">> >>)
    /\ last.log = <<>>

-----------------------------------------------------------------------------
\* The interfaces class c has members under, its own or inherited, and those
\* among them it has a property under.
IfacesOf(table) == {table[j].iface : j \in DOMAIN table}

MemberIfaces(c) == IfacesOf(_dbus_class_table(c))

PropertyIfaces(c) ==
    IfacesOf(SelectSeq(_dbus_class_table(c),
                       LAMBDA e : isinstance_property(e.func)))

\* Each of the interfaces is in pif with a property, or not in it at all,
\* and those without a property are not in it.
NoEmptyIn(pif, members, withProperty) ==
    \A iface \in members :
        /\ PifHasIface(pif, iface) => Len(PifProps(pif, iface)) >= 1
        /\ iface \notin withProperty => ~PifHasIface(pif, iface)

\* The interfaces of class c under which it has methods or signals only.
MethodOnlyIfaces(c) == MemberIfaces(c) \ PropertyIfaces(c)

(* C22: every interface of an index, built or to be built, of any class has  *)
(* at least one property in it, and an interface under which the class has   *)
(* only methods and signals, like the Properties interface, is not in it;    *)
(* Get, Set and GetAll on such an interface fail with unknown-interface, and *)
(* a GetAll that succeeds returns a mapping that is not empty.               *)
C22_NoEmptyInterface ==
    /\ \A c \in Classes :
          /\ NoEmptyIn(_build_property_iface_map(c),
                       MemberIfaces(c), PropertyIfaces(c))
          /\ NoEmptyIn(clsMap[c].pif, MemberIfaces(c), PropertyIfaces(c))
    /\ (last.op \in {"Get", "Set", "GetAll"}
          /\ last.iface \in MethodOnlyIfaces(last.cls)) =>
              /\ ~last.ok /\ Kind(last.exc) = "unknown-interface"
              /\ last.called = <<>> /\ last.mapping = {}
    /\ (last.op = "GetAll" /\ last.ok) => last.mapping # {}

\* GetAll on the Properties interface of a Widget whose index is built.
C22_Witness ==
    /\ last.op = "GetAll" /\ last.cls = "Widget" /\ ~last.ok
    /\ last.iface = PROPERTIES_IFACE
    /\ PROPERTIES_IFACE \in MethodOnlyIfaces("Widget")
    /\ clsMap["Widget"].id > 0 /\ Len(clsMap["Widget"].pif) > 0
    /\ Kind(last.exc) = "unknown-interface"

====
